---- MODULE Spec2Model ----
(***************************************************************************)
(* Clothes Finder front end: the search request lifecycle of the App       *)
(* component (front-end-app/src/App.js) and the API service                 *)
(* (front-end-app/src/services/api.js).                                     *)
(*                                                                         *)
(* Text is modelled as a sequence of characters, a JavaScript array as a   *)
(* sequence, an error message as the sequence of the pieces its template   *)
(* literal concatenates.  A value that is null or a string is a record     *)
(* tagged with its type.                                                   *)
(*                                                                         *)
(* handleSearch is an async function: the part before its await runs       *)
(* inside the DOM event (React applies the state updates of one event      *)
(* handler together), the part after the await runs when the promise of    *)
(* searchClothes settles, one state update after the other.  JavaScript    *)
(* runs each of the two parts to completion, so no DOM event is handled    *)
(* while a continuation is between two of its state updates.               *)
(***************************************************************************)
EXTENDS Integers, Sequences, FiniteSets, TLC

\* ------------------------------------------------------------------ bounds
MaxLen == 2      \* longest text the user types
MaxItems == 1    \* longest array the server returns
NumItems == 2    \* distinct clothing items
MaxCalls == 3    \* searchClothes invocations in one behaviour

\* ------------------------------------------------------------------ values
Space == " "
Chars == {"a", Space}
Keys == {"Enter", "a"}

SeqsUpTo(S, n) == UNION {[1..k -> S] : k \in 0..n}

Texts == SeqsUpTo(Chars, MaxLen)
ItemIds == 1..NumItems
Arrays == SeqsUpTo(ItemIds, MaxItems)

NULL == [type |-> "null"]
Str(tokens) == [type |-> "string", value |-> tokens]

\* JavaScript truthiness of a value that is null or a string
Truthy(v) == v.type = "string" /\ v.value # <<>>

\* String.prototype.trim
RECURSIVE TrimStart(_)
TrimStart(s) ==
  IF s = <<>> THEN <<>>
  ELSE IF Head(s) = Space THEN TrimStart(Tail(s)) ELSE s

RECURSIVE TrimEnd(_)
TrimEnd(s) ==
  IF s = <<>> THEN <<>>
  ELSE IF s[Len(s)] = Space THEN TrimEnd(SubSeq(s, 1, Len(s) - 1)) ELSE s

Trim(s) == TrimEnd(TrimStart(s))

\* ------------------------------------------------------------------ the network
\* What the transport answers to one fetch: no response at all, or a
\* response with a status and a body that is unparseable, a JSON value
\* that is no array, or a JSON array.
Statuses == {200, 299, 300, 404, 500}
Bodies ==
  {[kind |-> "invalid", items |-> <<>>],
   [kind |-> "null", items |-> <<>>],
   [kind |-> "object", items |-> <<>>]}
  \cup {[kind |-> "array", items |-> a] : a \in Arrays}

Responses ==
  {[net |-> "down", status |-> 0, body |-> [kind |-> "invalid", items |-> <<>>]]}
  \cup {[net |-> "up", status |-> s, body |-> b] : s \in Statuses, b \in Bodies}

\* Response.ok
Ok(status) == status >= 200 /\ status <= 299

\* the request body built by searchClothes: { request: query }
RequestBody(query) == [request |-> query]

\* searchClothes, from the settled fetch on: what the promise settles to
\* (parsed: response.json() was called on the way)
Returned(data) == [tag |-> "return", data |-> data, message |-> <<>>, parsed |-> TRUE]
Thrown(message) == [tag |-> "throw", data |-> <<>>, message |-> message, parsed |-> FALSE]
ThrownByJson(message) == [tag |-> "throw", data |-> <<>>, message |-> message, parsed |-> TRUE]

\* catch (error) { throw new Error(`Search failed: ${error.message}`) }
Wrap(inner) == <<"Search failed: ">> \o inner

\* The inner message is the text of the TypeError a failed fetch rejects
\* with, of the Error thrown for a status that is not ok, or of the
\* SyntaxError response.json() rejects with.

\* searchClothes without the check of response.ok
SearchClothesNoStatusCheck(resp) ==
  IF resp.net = "down" THEN Thrown(Wrap(<<"Failed to fetch">>))
  ELSE IF resp.body.kind = "invalid"
    THEN ThrownByJson(Wrap(<<"Unexpected token in JSON">>))
  ELSE IF resp.body.kind = "array" THEN Returned(resp.body.items)
  ELSE Returned(<<>>)

\* searchClothes throwing on a body that is no array
SearchClothesRejectsNonArray(resp) ==
  IF resp.net = "down" THEN Thrown(Wrap(<<"Failed to fetch">>))
  ELSE IF ~Ok(resp.status)
    THEN Thrown(Wrap(<<"HTTP error! status: ", ToString(resp.status)>>))
  ELSE IF resp.body.kind = "invalid"
    THEN ThrownByJson(Wrap(<<"Unexpected token in JSON">>))
  ELSE IF resp.body.kind = "array" THEN Returned(resp.body.items)
  ELSE ThrownByJson(Wrap(<<"Unexpected response">>))

\* searchClothes with the fetch outside its try block
SearchClothesFetchOutsideTry(resp) ==
  IF resp.net = "down" THEN Thrown(<<"Failed to fetch">>)
  ELSE IF ~Ok(resp.status)
    THEN Thrown(Wrap(<<"HTTP error! status: ", ToString(resp.status)>>))
  ELSE IF resp.body.kind = "invalid"
    THEN ThrownByJson(Wrap(<<"Unexpected token in JSON">>))
  ELSE IF resp.body.kind = "array" THEN Returned(resp.body.items)
  ELSE Returned(<<>>)

SearchClothes(resp) ==
  IF resp.net = "down" THEN Thrown(Wrap(<<"Failed to fetch">>))
  ELSE IF ~Ok(resp.status)
    THEN Thrown(Wrap(<<"HTTP error! status: ", ToString(resp.status)>>))
  ELSE IF resp.body.kind = "invalid"
    THEN ThrownByJson(Wrap(<<"Unexpected token in JSON">>))
  ELSE IF resp.body.kind = "array" THEN Returned(resp.body.items)
  ELSE Returned(<<>>)

\* ------------------------------------------------------------------ state
VARIABLES
  searchQuery,    \* useState(''): the text of the input field
  searchResults,  \* useState([]): the stored items
  isLoading,      \* useState(false)
  error,          \* useState(null): null or the message
  procs,          \* the handleSearch invocations that have not finished
  calls,          \* searchClothes invocations so far
  outcome,        \* tag of the outcome the session holds: none, Success, Failure
  lastEvent,      \* the handler or continuation step that ran last
  label,          \* getColorClass: the colour name it is called with
  category,       \* getColorClass: what it returned
  item,           \* the table body: the item of the row to render
  row             \* the table body: the rendered row

vars == <<searchQuery, searchResults, isLoading, error, procs, calls, outcome, lastEvent,
          label, category, item, row>>

\* the variables of the two pure functions, checked on their own
view == <<label, category, item, row>>

\* not computed yet
NotYet == [kind |-> "none"]

\* a handleSearch invocation: the number of its request, the body it
\* sent, where it stands, the response its fetch got and what
\* searchClothes settled to
Proc(seq, body, pc, resp, result) ==
  [seq |-> seq, body |-> body, pc |-> pc, resp |-> resp, result |-> result]

\* before the fetch settles there is neither a response nor a result
NoResponse == [net |-> "none", status |-> 0, body |-> [kind |-> "invalid", items |-> <<>>]]
Pending == [tag |-> "pending", data |-> <<>>, message |-> <<>>, parsed |-> FALSE]

\* the requests on the wire
InFlight == {p \in procs : p.pc = "await"}

\* a continuation of handleSearch is between two of its state updates
Running == \E p \in procs : p.pc # "await"

\* <input disabled={isLoading}>, <button disabled={isLoading}>
ControlsNeverDisabled == FALSE
ControlsDisabled == isLoading

\* a DOM event of the input or the button can be dispatched
CanInteract == ~ControlsDisabled /\ ~Running

\* the component as created
AppInit ==
  /\ searchQuery = <<>>
  /\ searchResults = <<>>
  /\ isLoading = FALSE
  /\ error = NULL
  /\ procs = {}
  /\ calls = 0
  /\ outcome = "none"
  /\ lastEvent = "init"

Init ==
  /\ AppInit
  /\ label = <<>>
  /\ category = NotYet
  /\ item = NotYet
  /\ row = NotYet

\* ------------------------------------------------------------------ handlers
\* if (!searchQuery.trim())
QueryRejectedNoTrim(query) == query = <<>>
QueryRejected(query) == Trim(query) = <<>>

\* handleSearch up to its await, with setIsLoading(true) left out
HandleSearchNoLoadingFlag ==
  IF QueryRejected(searchQuery)
  THEN /\ lastEvent' = "alert"
       /\ UNCHANGED <<searchQuery, searchResults, isLoading, error, procs, calls, outcome>>
  ELSE /\ calls < MaxCalls
       /\ error' = NULL
       /\ calls' = calls + 1
       /\ procs' = procs \cup {Proc(calls + 1, RequestBody(searchQuery), "await", NoResponse, Pending)}
       /\ outcome' = "none"
       /\ lastEvent' = "submit"
       /\ UNCHANGED <<searchQuery, searchResults, isLoading>>

\* handleSearch up to its await, with setError(null) left out
HandleSearchKeepsError ==
  IF QueryRejected(searchQuery)
  THEN /\ lastEvent' = "alert"
       /\ UNCHANGED <<searchQuery, searchResults, isLoading, error, procs, calls, outcome>>
  ELSE /\ calls < MaxCalls
       /\ isLoading' = TRUE
       /\ calls' = calls + 1
       /\ procs' = procs \cup {Proc(calls + 1, RequestBody(searchQuery), "await", NoResponse, Pending)}
       /\ outcome' = "none"
       /\ lastEvent' = "submit"
       /\ UNCHANGED <<searchQuery, searchResults, error>>

\* handleSearch up to its await: the validation, the two state updates
\* and the call of searchClothes, which sends the request
HandleSearch ==
  IF QueryRejected(searchQuery)
  THEN \* alert('Please enter a search term'); return
       /\ lastEvent' = "alert"
       /\ UNCHANGED <<searchQuery, searchResults, isLoading, error, procs, calls, outcome>>
  ELSE /\ calls < MaxCalls
       /\ isLoading' = TRUE
       /\ error' = NULL
       /\ calls' = calls + 1
       /\ procs' = procs \cup {Proc(calls + 1, RequestBody(searchQuery), "await", NoResponse, Pending)}
       /\ outcome' = "none"
       /\ lastEvent' = "submit"
       /\ UNCHANGED <<searchQuery, searchResults>>

\* handleKeyPress
HandleKeyPress(key) ==
  IF key = "Enter" THEN HandleSearch
  ELSE /\ lastEvent' = "key"
       /\ UNCHANGED <<searchQuery, searchResults, isLoading, error, procs, calls, outcome>>

\* onClick of the Search button
Click == CanInteract /\ HandleSearch /\ UNCHANGED view

\* onKeyPress of the input
KeyPress == CanInteract /\ (\E key \in Keys : HandleKeyPress(key)) /\ UNCHANGED view

\* handleInputChange, with the reset on a cleared input left out
HandleInputChangeNoReset(value) ==
  /\ searchQuery' = value
  /\ lastEvent' = "input"
  /\ UNCHANGED <<searchResults, error, outcome, isLoading, procs, calls>>

\* handleInputChange, with the reset run on every change
HandleInputChangeAlwaysResets(value) ==
  /\ searchQuery' = value
  /\ searchResults' = <<>>
  /\ error' = NULL
  /\ outcome' = "none"
  /\ lastEvent' = "input"
  /\ UNCHANGED <<isLoading, procs, calls>>

\* handleInputChange
HandleInputChange(value) ==
  /\ searchQuery' = value
  /\ IF Trim(value) = <<>>
     THEN /\ searchResults' = <<>>
          /\ error' = NULL
          /\ outcome' = "none"
     ELSE UNCHANGED <<searchResults, error, outcome>>
  /\ lastEvent' = "input"
  /\ UNCHANGED <<isLoading, procs, calls>>

InputChange ==
  CanInteract /\ (\E value \in Texts : HandleInputChange(value)) /\ UNCHANGED view

\* ------------------------------------------------------------------ the continuation
Step(p, pc) == (procs \ {p}) \cup {Proc(p.seq, p.body, pc, p.resp, p.result)}

\* the fetch of p settles and searchClothes settles with it
Settle ==
  /\ ~Running
  /\ \E p \in InFlight, resp \in Responses :
       LET r == SearchClothes(resp) IN
       /\ procs' = (procs \ {p}) \cup
                   {Proc(p.seq, p.body, IF r.tag = "return" THEN "setResults" ELSE "setError", resp, r)}
       /\ lastEvent' = "settle"
       /\ UNCHANGED <<searchQuery, searchResults, isLoading, error, calls, outcome>>
       /\ UNCHANGED view

\* try: setSearchResults(data)
SetResults ==
  \E p \in procs :
    /\ p.pc = "setResults"
    /\ searchResults' = p.result.data
    /\ outcome' = "Success"
    /\ procs' = Step(p, "finally")
    /\ lastEvent' = "setResults"
    /\ UNCHANGED <<searchQuery, isLoading, error, calls>>
    /\ UNCHANGED view

\* catch: setError(err.message)
SetError ==
  \E p \in procs :
    /\ p.pc = "setError"
    /\ error' = Str(p.result.message)
    /\ outcome' = "Failure"
    /\ procs' = Step(p, "clearResults")
    /\ lastEvent' = "setError"
    /\ UNCHANGED <<searchQuery, searchResults, isLoading, calls>>
    /\ UNCHANGED view

\* catch, with setSearchResults([]) left out
ClearResultsSkipped ==
  \E p \in procs :
    /\ p.pc = "clearResults"
    /\ procs' = Step(p, "finally")
    /\ lastEvent' = "clearResults"
    /\ UNCHANGED <<searchQuery, searchResults, isLoading, error, calls, outcome>>
    /\ UNCHANGED view

\* catch: setSearchResults([])
ClearResults ==
  \E p \in procs :
    /\ p.pc = "clearResults"
    /\ searchResults' = <<>>
    /\ procs' = Step(p, "finally")
    /\ lastEvent' = "clearResults"
    /\ UNCHANGED <<searchQuery, isLoading, error, calls, outcome>>
    /\ UNCHANGED view

\* finally: setIsLoading(false)
Finally ==
  \E p \in procs :
    /\ p.pc = "finally"
    /\ isLoading' = FALSE
    /\ procs' = procs \ {p}
    /\ lastEvent' = "finally"
    /\ UNCHANGED <<searchQuery, searchResults, error, calls, outcome>>
    /\ UNCHANGED view

Next ==
  \/ Click
  \/ KeyPress
  \/ InputChange
  \/ Settle
  \/ SetResults
  \/ SetError
  \/ ClearResults
  \/ Finally

Spec == Init /\ [][Next]_vars

\* A continuation runs to completion once its promise has settled.
FairSpec ==
  /\ Spec
  /\ WF_vars(SetResults)
  /\ WF_vars(SetError)
  /\ WF_vars(ClearResults)
  /\ WF_vars(Finally)

\* ------------------------------------------------------------------ what is rendered
ShowError == Truthy(error)
ShowLoading == isLoading
ShowTableIgnoresLoading == Len(searchResults) > 0
ShowNoResults == ~isLoading /\ Len(searchResults) = 0 /\ searchQuery # <<>> /\ ~Truthy(error)
ShowTable == ~isLoading /\ Len(searchResults) > 0
ShowGuidance == ~isLoading /\ Len(searchResults) = 0 /\ searchQuery = <<>> /\ ~Truthy(error)

\* The phase of the session the state stands for.  The component keeps no
\* phase: Loading is the loading flag, Errored a stored error, and what
\* tells Resolved from Idle is whether the outcome of a successful request
\* is held (stored by the continuation, dropped by a new search and by
\* the reset of handleInputChange).
Phase ==
  IF isLoading THEN "Loading"
  ELSE IF error # NULL THEN "Errored"
  ELSE IF outcome = "Success" THEN "Resolved"
  ELSE "Idle"

TypeOK ==
  /\ searchQuery \in Texts
  /\ searchResults \in Arrays
  /\ isLoading \in BOOLEAN
  /\ calls \in 0..MaxCalls
  /\ outcome \in {"none", "Success", "Failure"}

\* ------------------------------------------------------------------ getColorClass
LowerLetters ==
  <<"a", "b", "c", "d", "e", "f", "g", "h", "i", "j", "k", "l", "m",
    "n", "o", "p", "q", "r", "s", "t", "u", "v", "w", "x", "y", "z">>
UpperLetters ==
  <<"A", "B", "C", "D", "E", "F", "G", "H", "I", "J", "K", "L", "M",
    "N", "O", "P", "Q", "R", "S", "T", "U", "V", "W", "X", "Y", "Z">>

\* String.prototype.toLowerCase and toUpperCase, on one character and on a text
ToLowerChar(c) ==
  IF \E i \in 1..26 : UpperLetters[i] = c
  THEN LowerLetters[CHOOSE i \in 1..26 : UpperLetters[i] = c]
  ELSE c
ToUpperChar(c) ==
  IF \E i \in 1..26 : LowerLetters[i] = c
  THEN UpperLetters[CHOOSE i \in 1..26 : LowerLetters[i] = c]
  ELSE c
ToLowerCase(s) == [i \in 1..Len(s) |-> ToLowerChar(s[i])]
ToUpperCase(s) == [i \in 1..Len(s) |-> ToUpperChar(s[i])]

\* the spellings of a text in every mix of upper and lower case
RECURSIVE CaseVariants(_)
CaseVariants(s) ==
  IF s = <<>> THEN {<<>>}
  ELSE {<<c>> \o t : c \in {ToLowerChar(Head(s)), ToUpperChar(Head(s))},
                     t \in CaseVariants(Tail(s))}

\* colorMap: Basic colors, with another class for the alternative spelling
BasicColorsGreyLighter ==
  {<<<<"b", "l", "a", "c", "k">>, "bg-black">>,
   <<<<"w", "h", "i", "t", "e">>, "bg-white">>,
   <<<<"b", "l", "u", "e">>, "bg-blue-500">>,
   <<<<"r", "e", "d">>, "bg-red-500">>,
   <<<<"g", "r", "e", "e", "n">>, "bg-green-500">>,
   <<<<"y", "e", "l", "l", "o", "w">>, "bg-yellow-400">>,
   <<<<"g", "r", "a", "y">>, "bg-gray-500">>,
   <<<<"g", "r", "e", "y">>, "bg-gray-400">>}

\* colorMap: Basic colors
BasicColors ==
  {<<<<"b", "l", "a", "c", "k">>, "bg-black">>,
   <<<<"w", "h", "i", "t", "e">>, "bg-white">>,
   <<<<"b", "l", "u", "e">>, "bg-blue-500">>,
   <<<<"r", "e", "d">>, "bg-red-500">>,
   <<<<"g", "r", "e", "e", "n">>, "bg-green-500">>,
   <<<<"y", "e", "l", "l", "o", "w">>, "bg-yellow-400">>,
   <<<<"g", "r", "a", "y">>, "bg-gray-500">>,
   <<<<"g", "r", "e", "y">>, "bg-gray-500">>}

\* colorMap: Extended colors
ExtendedColors ==
  {<<<<"n", "a", "v", "y">>, "bg-blue-900">>,
   <<<<"b", "e", "i", "g", "e">>, "bg-amber-100">>,
   <<<<"b", "r", "o", "w", "n">>, "bg-amber-800">>,
   <<<<"p", "i", "n", "k">>, "bg-pink-400">>,
   <<<<"p", "u", "r", "p", "l", "e">>, "bg-purple-500">>,
   <<<<"o", "r", "a", "n", "g", "e">>, "bg-orange-500">>}

\* colorMap: Fashion-specific colors
FashionColors ==
  {<<<<"k", "h", "a", "k", "i">>, "bg-yellow-600">>,
   <<<<"o", "l", "i", "v", "e">>, "bg-green-700">>,
   <<<<"b", "u", "r", "g", "u", "n", "d", "y">>, "bg-red-800">>,
   <<<<"c", "r", "e", "a", "m">>, "bg-yellow-50">>,
   <<<<"c", "h", "a", "r", "c", "o", "a", "l">>, "bg-gray-700">>,
   <<<<"d", "e", "n", "i", "m">>, "bg-blue-600">>}

\* colorMap: Special patterns
PatternColors ==
  {<<<<"p", "l", "a", "i", "d">>, "bg-gradient-to-r from-red-500 to-blue-500">>,
   <<<<"f", "l", "o", "r", "a", "l">>, "bg-gradient-to-r from-pink-300 to-purple-300">>}

\* the entries of the object literal colorMap
ColorMap == BasicColors \cup ExtendedColors \cup FashionColors \cup PatternColors

OwnKeys == {e[1] : e \in ColorMap}
Own(key) == (CHOOSE e \in ColorMap : e[1] = key)[2]

\* colorMap is an object literal: a property it does not own is looked up
\* in Object.prototype.  Of the names Object.prototype defines, the ones
\* without an upper-case letter are the only ones a lower-cased key can
\* equal: constructor (a function) and __proto__ (an object).
InheritedKeys ==
  {<<"c", "o", "n", "s", "t", "r", "u", "c", "t", "o", "r">>,
   <<"_", "_", "p", "r", "o", "t", "o", "_", "_">>}

\* what getColorClass evaluates to: a class name, a value inherited from
\* Object.prototype, or a TypeError thrown
Class(name) == [kind |-> "class", value |-> name]
Inherited(key) ==
  [kind |-> "inherited",
   value |-> IF Head(key) = "c" THEN "function Object" ELSE "Object.prototype"]
TypeError == [kind |-> "throw", value |-> "TypeError"]

DefaultClass == Class("bg-gray-300")

Undefined == [type |-> "undefined"]

\* colorMap[key] || 'bg-gray-300': every value of the table and both
\* inherited values are truthy
Lookup(key) ==
  IF key \in OwnKeys THEN Class(Own(key))
  ELSE IF key \in InheritedKeys THEN Inherited(key)
  ELSE DefaultClass

\* getColorClass without the toLowerCase
GetColorClassCaseSensitive(colorName) ==
  IF colorName.type # "string" THEN TypeError
  ELSE Lookup(colorName.value)

\* getColorClass: colorName.toLowerCase() throws a TypeError when
\* colorName is undefined
GetColorClass(colorName) ==
  IF colorName.type # "string" THEN TypeError
  ELSE Lookup(ToLowerCase(colorName.value))

\* the colour names getColorClass is tried on: the names of the table and
\* names that are none of them (the empty text, a typo, a number as text,
\* other words), each in every mix of case
OtherWords ==
  {<<>>, <<"g", "r", "y">>, <<"4", "2">>, <<"t", "e", "a", "l">>, <<"c", "o", "n", "s", "t", "r", "u", "c", "t", "o", "r">>, <<"_", "_", "p", "r", "o", "t", "o", "_", "_">>}
Labels == UNION {CaseVariants(w) : w \in OwnKeys \cup OtherWords}

ClassifyInit ==
  /\ AppInit
  /\ label \in Labels
  /\ category = NotYet
  /\ item = NotYet
  /\ row = NotYet

\* a call getColorClass(label)
Classify ==
  /\ category = NotYet
  /\ category' = GetColorClass(Str(label))
  /\ UNCHANGED <<searchQuery, searchResults, isLoading, error, procs, calls, outcome,
                 lastEvent, label, item, row>>

ClassifyNext == Classify

ClassifySpec == ClassifyInit /\ [][ClassifyNext]_vars

\* ------------------------------------------------------------------ the table body
MaxLabels == 2   \* longest array of sizes or of colours of an item

Arr(elements) == [type |-> "array", elements |-> elements]

\* what a field of an item of the response holds: nothing, a text, or,
\* for sizes and colors, an array of texts
SizeLabels == {<<"M">>, <<"X", "L">>}
ColorLabels == {<<"B", "l", "u", "e">>, <<"r", "e", "d">>}
TextOrAbsent(texts) == {Undefined} \cup {Str(t) : t \in texts}
ListOrTextOrAbsent(texts) ==
  TextOrAbsent(texts) \cup {Arr(a) : a \in SeqsUpTo({Str(t) : t \in texts}, MaxLabels)}

ItemShapes ==
  [id : TextOrAbsent({<<"1">>}),
   name : TextOrAbsent({<<"n">>}),
   type : TextOrAbsent({<<"t">>}),
   brand : TextOrAbsent({<<"b">>}),
   description : TextOrAbsent({<<"d">>}),
   sizes : ListOrTextOrAbsent(SizeLabels),
   colors : ListOrTextOrAbsent(ColorLabels)]

\* {value} as the child of an element: a text is rendered, undefined
\* renders nothing
Child(v) == IF v.type = "string" THEN v.value ELSE <<>>

\* Array.prototype.join
RECURSIVE Join(_, _)
Join(elements, separator) ==
  IF elements = <<>> THEN <<>>
  ELSE IF Len(elements) = 1 THEN Child(elements[1])
  ELSE Child(elements[1]) \o separator \o Join(Tail(elements), separator)

\* Array.isArray(item.sizes) ? item.sizes.join(', ') : item.sizes
RenderSizes(sizes) ==
  IF sizes.type = "array" THEN Join(sizes.elements, <<",", " ">>) ELSE Child(sizes)

\* one square: <div className={`... ${getColorClass(color)}`} title={color}>
Square(color) == [class |-> GetColorClass(color), title |-> Child(color)]

\* the squares of the colours cell, with the class left out of the square
\* of a single colour
RenderColorsSingleUnclassed(colors) ==
  IF colors.type = "array"
  THEN [i \in 1..Len(colors.elements) |-> Square(colors.elements[i])]
  ELSE <<[class |-> DefaultClass, title |-> Child(colors)]>>

\* the squares of the colours cell: one for each element of an array, one
\* for anything else
RenderColors(colors) ==
  IF colors.type = "array"
  THEN [i \in 1..Len(colors.elements) |-> Square(colors.elements[i])]
  ELSE <<Square(colors)>>

\* the <tr> of one item; a TypeError thrown by getColorClass leaves the
\* render function
RenderRow(it) ==
  LET squares == RenderColors(it.colors) IN
  IF \E i \in 1..Len(squares) : squares[i].class.kind = "throw"
  THEN [status |-> "throw"]
  ELSE [status |-> "ok",
        key |-> Child(it.id),
        name |-> Child(it.name),
        type |-> Child(it.type),
        brand |-> Child(it.brand),
        sizes |-> RenderSizes(it.sizes),
        colors |-> squares,
        description |-> Child(it.description)]

RenderInit ==
  /\ AppInit
  /\ label = <<>>
  /\ category = NotYet
  /\ item \in ItemShapes
  /\ row = NotYet

\* searchResults.map((item) => <tr>...</tr>), for one item
Render ==
  /\ row = NotYet
  /\ row' = RenderRow(item)
  /\ UNCHANGED <<searchQuery, searchResults, isLoading, error, procs, calls, outcome,
                 lastEvent, label, category, item>>

RenderNext == Render

RenderSpec == RenderInit /\ [][RenderNext]_vars

\* ------------------------------------------------------------------ claims
\* a submit: a click on the Search button or Enter in the input
Submit == Click \/ (CanInteract /\ HandleKeyPress("Enter"))

session == <<searchQuery, searchResults, isLoading, error, procs, calls, outcome>>

\* C1: a submit while the query is empty or all whitespace changes neither
\* the loading flag, the stored items nor the stored error, so the phase
\* stays what it was, and it starts no request.
C1_BlankSubmitChangesNothing ==
  [][(Submit /\ Trim(searchQuery) = <<>>) =>
       /\ UNCHANGED session
       /\ Phase' = Phase
       /\ InFlight' = {}]_vars

\* a submit of an all-whitespace query has been answered with the alert
C1_Witness ==
  /\ lastEvent = "alert"
  /\ searchQuery # <<>>
  /\ Trim(searchQuery) = <<>>
  /\ calls > 0

\* C2: a submit of a query that is non-empty after trimming, from Idle,
\* Resolved or Errored, sets the loading flag, puts a request on the wire
\* and moves the session to Loading.
C2_SubmitEntersLoading ==
  [][(Submit /\ Trim(searchQuery) # <<>>) =>
       /\ Phase \in {"Idle", "Resolved", "Errored"}
       /\ Phase' = "Loading"
       /\ isLoading'
       /\ \E p \in InFlight' : p.seq = calls' /\ p \notin procs]_vars

\* a second search has been submitted and is in flight
C2_Witness ==
  /\ lastEvent = "submit"
  /\ Phase = "Loading"
  /\ calls = 2
  /\ InFlight # {}

\* C4 as stated: while a request is in flight the stored items are empty
\* and the stored error is absent.
C4_ItemsAndErrorClearedInFlight ==
  InFlight # {} => (searchResults = <<>> /\ error = NULL)

\* C4, amended: an accepted submit clears the stored error and leaves the
\* stored items as they are; while a request is in flight the error is
\* absent and the results table is not rendered.
C4_SubmitClearsErrorKeepsItems ==
  /\ [](InFlight # {} => (error = NULL /\ ~ShowTable /\ ~ShowError))
  /\ [][(Submit /\ Trim(searchQuery) # <<>>) =>
          (error' = NULL /\ searchResults' = searchResults)]_vars

\* a request is in flight over the items of the search before it
C4_Witness ==
  /\ InFlight # {}
  /\ lastEvent = "submit"
  /\ searchResults # <<>>
  /\ error = NULL

\* C5: the query in the body of every request is non-empty and equals its
\* own trimmed form.
C5_SentQueryIsTrimmed ==
  \A p \in procs : p.body.request # <<>> /\ p.body.request = Trim(p.body.request)

\* C6 as stated: the loading flag and a non-null error are never set
\* together, in any state.
C6_NeverLoadingAndError == ~(isLoading /\ error # NULL)

\* C6, amended: the loading flag and a non-null error are set together
\* only inside the failure path of a continuation, after its setError and
\* before its setIsLoading(false).
C6_LoadingAndErrorOnlyInsideCatch ==
  (isLoading /\ error # NULL) =>
    \E p \in procs :
      /\ p.pc \in {"clearResults", "finally"}
      /\ p.result.tag = "throw"
      /\ error = Str(p.result.message)

\* a failure has been applied completely: the banner without the indicator
C6_Witness ==
  /\ lastEvent = "finally"
  /\ Phase = "Errored"
  /\ ShowError
  /\ ~ShowLoading

\* C7: the "no results" message is rendered only in Resolved, with empty
\* items and a non-empty query.
C7_NoResultsOnlyWhenResolved ==
  ShowNoResults => (Phase = "Resolved" /\ searchResults = <<>> /\ searchQuery # <<>>)

\* C8: the empty-state guidance is rendered only in Idle with an empty
\* query: never with a request in flight, an error stored or a query present.
C8_GuidanceOnlyWhenIdle ==
  ShowGuidance =>
    /\ Phase = "Idle"
    /\ outcome = "none"
    /\ searchQuery = <<>>
    /\ procs = {}
    /\ error = NULL

\* the guidance is back after a search and a cleared input
C8_Witness ==
  /\ ShowGuidance
  /\ lastEvent = "input"
  /\ calls > 0

\* C9: the step that ends a continuation leaves the session Resolved with
\* exactly the returned items and no error, or Errored with the message
\* and no items, the loading flag cleared; Loading is left to no other
\* phase; and a settled request does lead out of Loading.
C9_ResolutionLeavesLoading ==
  /\ [][\A p \in procs :
          (p.pc = "finally" /\ p \notin procs') =>
            /\ ~isLoading'
            /\ IF p.result.tag = "return"
               THEN /\ Phase' = "Resolved"
                    /\ searchResults' = p.result.data
                    /\ error' = NULL
               ELSE /\ Phase' = "Errored"
                    /\ error' = Str(p.result.message)
                    /\ searchResults' = <<>>]_vars
  /\ [][Phase = "Loading" => Phase' \in {"Loading", "Resolved", "Errored"}]_vars
  /\ (Running ~> (~isLoading /\ procs = {}))

\* a failure has replaced the items of an earlier search
C9_Witness ==
  /\ lastEvent = "finally"
  /\ Phase = "Errored"
  /\ searchResults = <<>>
  /\ calls >= 2

\* C10: at most one invocation of searchClothes is outstanding.
C10_AtMostOneOutstanding == Cardinality(procs) <= 1

\* a later request is in flight, alone
C10_Witness ==
  /\ Cardinality(InFlight) = 1
  /\ calls = MaxCalls

\* the continuation of p ends with this step
Ends(p) == p.pc = "finally" /\ p \notin procs'

\* the response of p came with a status outside 200-299
BadStatus(p) == p.resp.net = "up" /\ (p.resp.status < 200 \/ p.resp.status > 299)

\* the response of p came with a status in 200-299 and a body of this kind
GoodStatus(p, kinds) ==
  /\ p.resp.net = "up"
  /\ p.resp.status >= 200
  /\ p.resp.status <= 299
  /\ p.resp.body.kind \in kinds

\* C11: a response with a status outside 200-299 makes searchClothes throw
\* a message that holds the status code, without a call of
\* response.json(); once the outcome is applied the session is Errored
\* with no items stored.
C11_BadStatusIsFailure ==
  /\ [](\A p \in procs :
          BadStatus(p) =>
            /\ p.result.tag = "throw"
            /\ ~p.result.parsed
            /\ \E i \in 1..Len(p.result.message) :
                 p.result.message[i] = ToString(p.resp.status))
  /\ [][\A p \in procs :
          (Ends(p) /\ BadStatus(p)) =>
            /\ searchResults' = <<>>
            /\ Phase' = "Errored"
            /\ error' = Str(p.result.message)]_vars

\* the failure of a 500 has been stored over the items of an earlier search
C11_Witness ==
  /\ \E p \in procs : p.pc = "finally" /\ BadStatus(p) /\ p.resp.status = 500
  /\ error = Str(<<"Search failed: ", "HTTP error! status: ", "500">>)
  /\ searchResults = <<>>
  /\ calls >= 2

\* C12: a 200 with the body [] is the outcome Success with no items, and
\* the view then shows the "no results" message, not the error banner
\* and not the guidance.
C12_EmptyArrayShowsNoResults ==
  /\ [](\A p \in procs :
          (GoodStatus(p, {"array"}) /\ p.resp.body.items = <<>>) =>
            (p.result.tag = "return" /\ p.result.data = <<>>))
  /\ [][\A p \in procs :
          (Ends(p) /\ GoodStatus(p, {"array"}) /\ p.resp.body.items = <<>>) =>
            /\ Phase' = "Resolved"
            /\ searchResults' = <<>>
            /\ ShowNoResults'
            /\ ~ShowError'
            /\ ~ShowGuidance'
            /\ ~ShowTable']_vars

\* the empty array of a 200 has replaced the items of an earlier search
C12_Witness ==
  /\ \E p \in procs :
       /\ p.pc = "finally"
       /\ p.resp.status = 200
       /\ GoodStatus(p, {"array"})
       /\ p.resp.body.items = <<>>
       /\ p.seq >= 2
  /\ outcome = "Success"
  /\ searchResults = <<>>

\* C13: a success status with a body that parses to something that is no
\* array (an object, null) is the outcome Success with no items: it is
\* never thrown and never puts the session in Errored.
C13_NonArrayIsEmptySuccess ==
  /\ [](\A p \in procs :
          GoodStatus(p, {"null", "object"}) =>
            /\ p.result.tag = "return"
            /\ p.result.data = <<>>
            /\ p.pc \in {"setResults", "finally"})
  /\ [][\A p \in procs :
          (Ends(p) /\ GoodStatus(p, {"null", "object"})) =>
            /\ Phase' = "Resolved"
            /\ searchResults' = <<>>
            /\ error' = NULL]_vars

\* an object body has been stored as no items
C13_Witness ==
  /\ \E p \in procs :
       p.pc = "finally" /\ GoodStatus(p, {"object"}) /\ p.result = Returned(<<>>)
  /\ outcome = "Success"
  /\ error = NULL

\* C14: searchClothes fails exactly on no response, on a status outside
\* 200-299 and on an unparseable body; every such failure is one message
\* that starts with the same wrapper and goes on with the cause, and it
\* puts the session in Errored with that message displayed.
C14_FailuresShareOneEnvelope ==
  /\ [](\A p \in procs :
          p.pc # "await" =>
            /\ p.result.tag = "throw" <=>
                 \/ p.resp.net = "down"
                 \/ BadStatus(p)
                 \/ GoodStatus(p, {"invalid"})
            /\ p.result.tag = "throw" =>
                 /\ Len(p.result.message) >= 2
                 /\ Head(p.result.message) = "Search failed: ")
  /\ [][\A p \in procs :
          (Ends(p) /\ p.result.tag = "throw") =>
            /\ Phase' = "Errored"
            /\ error' = Str(p.result.message)
            /\ ShowError'
            /\ ~ShowLoading']_vars

\* the failure of a refused connection is displayed
C14_Witness ==
  /\ lastEvent = "finally"
  /\ Phase = "Errored"
  /\ error = Str(<<"Search failed: ", "Failed to fetch">>)
  /\ ShowError

C15_ClassifyTotalWithDefault ==
  category # NotYet =>
    /\ category.kind = "class"
    /\ ToLowerCase(label) \notin OwnKeys => category = DefaultClass

\* C16: two colour names that differ only in letter case get the same
\* class: each gets the class of the lower-case spelling they share, and
\* of the upper-case one.
C16_ClassifyIgnoresCase ==
  category # NotYet =>
    /\ category = GetColorClass(Str(ToLowerCase(label)))
    /\ category = GetColorClass(Str(ToUpperCase(label)))

\* a name of the table in mixed case has got the class of the table
C16_Witness ==
  /\ label = <<"B", "l", "u", "E">>
  /\ category = Class("bg-blue-500")

\* C17: "grey" gets the class of "gray", and it is not the default class.
C17_GreyIsGray ==
  (category # NotYet /\ label = <<"g", "r", "e", "y">>) =>
    /\ category = GetColorClass(Str(<<"g", "r", "a", "y">>))
    /\ category.kind = "class"
    /\ category # DefaultClass

\* "grey" has been classified
C17_Witness ==
  /\ label = <<"g", "r", "e", "y">>
  /\ category = Class("bg-gray-500")

\* C18: an item whose colors, or sizes, is a single text is rendered as
\* the item that holds the one-element array of that text: one square
\* with the same class and title, the same text of sizes.
C18_SingleLabelRendersAsOneElementArray ==
  row # NotYet =>
    /\ item.colors.type = "string" =>
         /\ row = RenderRow([item EXCEPT !.colors = Arr(<<item.colors>>)])
         /\ Len(row.colors) = 1
    /\ item.sizes.type = "string" =>
         row = RenderRow([item EXCEPT !.sizes = Arr(<<item.sizes>>)])

\* a row with the single colour "Blue" and the single size "M"
C18_Witness ==
  /\ row # NotYet
  /\ item.colors = Str(<<"B", "l", "u", "e">>)
  /\ item.sizes = Str(<<"M">>)
  /\ row.status = "ok"
  /\ row.colors = <<[class |-> Class("bg-blue-500"), title |-> <<"B", "l", "u", "e">>]>>
  /\ row.sizes = <<"M">>

\* the fields an item lacks
Absent(it) ==
  {f \in {"id", "name", "type", "brand", "description", "sizes", "colors"} :
     it[f] = Undefined}

\* C19: the row of an item that lacks any of its fields is rendered
\* without a failure.
C19_AbsentFieldsRender ==
  (row # NotYet /\ Absent(item) # {}) => row.status = "ok"

\* the DOM events of the input and the button
UserEvents == {"input", "key", "submit", "alert"}

\* C21 as stated: while a request is in flight an input change is still
\* accepted and updates the query.
C21_InputAcceptedWhileLoading ==
  InFlight # {} => ENABLED InputChange

\* C21, amended: while the session is Loading the input and the button are
\* both disabled: no input change, key press or submit is handled, and
\* the query stays what it was when the request was submitted.
C21_ControlsInertWhileLoading ==
  /\ [](isLoading => (ControlsDisabled /\ ~CanInteract))
  /\ [][isLoading => (searchQuery' = searchQuery /\ lastEvent' \notin UserEvents)]_vars

\* a request is in flight and the controls are disabled
C21_Witness ==
  /\ InFlight # {}
  /\ isLoading
  /\ ControlsDisabled
  /\ searchQuery = <<"a", "a">>

\* C22: in every state in which no request is in flight a stored error
\* implies that no items are stored, and the error banner and the results
\* table are never rendered together.
C22_ErrorImpliesNoItems ==
  /\ (procs = {} /\ error # NULL) => searchResults = <<>>
  /\ ~(ShowError /\ ShowTable)

\* the banner of a failed later search stays while the query is edited
C22_Witness ==
  /\ procs = {}
  /\ ShowError
  /\ searchResults = <<>>
  /\ lastEvent = "input"
  /\ calls >= 2

\* C23: the results table is not rendered while a request is in flight;
\* the stored items change only when a continuation stores the items its
\* own request returned or when they are emptied; the step that ends a
\* continuation leaves exactly the items of its request, none on a
\* failure; so a rendered table holds the items of the last request.
C23_EarlierItemsNeverShownAgain ==
  /\ [](procs # {} => ~ShowTable)
  /\ [](ShowTable => (outcome = "Success" /\ error = NULL))
  /\ [][searchResults' # searchResults =>
          \/ \E p \in procs : p.pc = "setResults" /\ searchResults' = p.result.data
          \/ searchResults' = <<>>]_vars
  /\ [][\A p \in procs :
          Ends(p) =>
            /\ searchResults' = (IF p.result.tag = "return" THEN p.result.data ELSE <<>>)
            /\ ShowTable' = (p.result.tag = "return" /\ p.result.data # <<>>)]_vars

\* a later request has returned other items than the stored ones of the
\* search before it, which are not rendered
C23_Witness ==
  \E p \in procs :
    /\ p.pc = "setResults"
    /\ p.seq >= 2
    /\ searchResults # <<>>
    /\ p.result.data # searchResults
    /\ ~ShowTable

\* C24: an input change whose new value is not empty after trimming
\* changes the query only: the stored items, the stored error and the
\* loading flag stay, no request starts, and the results table or the
\* error banner that was rendered stays rendered.
C24_NonBlankInputChangesOnlyQuery ==
  [][(InputChange /\ Trim(searchQuery') # <<>>) =>
       /\ UNCHANGED <<searchResults, error, isLoading, procs, calls>>
       /\ Phase' = Phase
       /\ ShowTable' = ShowTable
       /\ ShowError' = ShowError]_vars

\* the query has been edited under the table of the last search
C24_Witness ==
  /\ lastEvent = "input"
  /\ Trim(searchQuery) # <<>>
  /\ ShowTable
  /\ Phase = "Resolved"

====
